---- MODULE Spec2Model ----
(***************************************************************************)
(* idb.js: a promise wrapper over the browser's IndexedDB.                 *)
(*                                                                         *)
(* The wrapper (promisify, client, upgrade, idb.open, idb.delete) is       *)
(* modelled from src/idb.js.  The storage engine it calls is modelled as   *)
(* the IndexedDB standard defines the calls the wrapper makes: one         *)
(* database name, object stores with an in-line key path ("id") or         *)
(* out-of-line keys, one optional index "byName" over the field "name".    *)
(* A request is executed and its notification delivered in one engine      *)
(* step: the engine fires a request's event before it starts any later     *)
(* transaction of overlapping scope, so the two are not separable from     *)
(* the promises' point of view.                                            *)
(***************************************************************************)
EXTENDS Integers, Sequences, FiniteSets

\* TLC keeps the fields of a record in the order in which their names first
\* occur in the module.  This is that order; every record below lists its
\* fields in it.
FieldOrder ==
    [bal |-> 0, before |-> 0, call |-> 0, closedBefore |-> 0, conn |-> 0, data |-> 0,
     endStores |-> 0, endVersion |-> 0, engineError |-> 0, err |-> 0, error |-> 0,
     exists |-> 0, first |-> 0, firstReq |-> 0, id |-> 0, idx |-> 0, index |-> 0,
     jumped |-> 0, key |-> 0, keyPath |-> 0, keys |-> 0, kind |-> 0, limit |-> 0, name |-> 0,
     net |-> 0, notes |-> 0, num |-> 0, op |-> 0, outcome |-> 0, overlapped |-> 0,
     phase |-> 0,
     post |-> 0, pre |-> 0, preStores |-> 0, preVersion |-> 0, promise |-> 0,
     promised |-> 0, result |-> 0, state |-> 0, stores |-> 0, str |-> 0,
     table |-> 0, text |-> 0, threw |-> 0, thrown |-> 0, unique |-> 0,
     upgrades |-> 0, val |-> 0, vals |-> 0, value |-> 0, version |-> 0]

\* ------------------------------------------------------------------ bounds
MaxVersion == 2
MaxConns == 2
MaxPending == 2
MaxSchemaLen == 3
MaxDrift == 2
MaxNotify == 2

\* ------------------------------------------------------------------ inputs
Tables == {"items", "logs"}
Keys == {1, 2}
Names == {"a", "b"}
ConnIds == 1..MaxConns
\* the caller's schema objects: plain = {byName: ["name"]},
\* uniq = {byName: ["name", {unique: true}]}
SchemaIds == {"plain", "uniq"}
IndexName == "byName"

\* a record value {id, name}; NoValue is JavaScript's undefined
Values == [id : Keys, name : Names]
NoValue == [id |-> 0, name |-> ""]
\* a key that is no valid IndexedDB key (null, an object, NaN)
BadKey == -1
\* the key argument left out (undefined)
NoKey == 0

\* ------------------------------------------------------------ result values
\* One shape for every value a promise settles with or a call throws.
Mk(kind, err, num, val, vals, keys) ==
    [err |-> err, keys |-> keys, kind |-> kind, num |-> num, val |-> val, vals |-> vals]
Undefined == Mk("undefined", "", 0, NoValue, <<>>, <<>>)
\* request.error: the engine's DOMException, named
ErrorValue(name) == Mk("error", name, 0, NoValue, <<>>, <<>>)
\* an Event whose target.error is the DOMException
EventOf(name) == Mk("event", name, 0, NoValue, <<>>, <<>>)
\* a value thrown by the caller's onUpgrade callback
UserError == Mk("thrown", "UserError", 0, NoValue, <<>>, <<>>)
KeyResult(k) == Mk("key", "", k, NoValue, <<>>, <<>>)
CountResult(n) == Mk("count", "", n, NoValue, <<>>, <<>>)
ValueResult(v) == IF v = NoValue THEN Undefined ELSE Mk("value", "", 0, v, <<>>, <<>>)
ValuesResult(vs) == Mk("values", "", 0, NoValue, vs, <<>>)
KeysResult(ks) == Mk("keys", "", 0, NoValue, <<>>, ks)
\* client(db): the frozen facade over connection c
ClientOf(c) == Mk("client", "", c, NoValue, <<>>, <<>>)

\* ---------------------------------------------------------------- promises
PendingPromise == [state |-> "pending", value |-> Undefined]
\* a settled promise ignores every later resolve and reject
SettleOverwrite(p, how, v) == [state |-> how, value |-> v]
Settle(p, how, v) ==
    IF p.state = "pending" THEN [state |-> how, value |-> v] ELSE p

\* ------------------------------------------------- the engine's object store
\* an object store's definition: createObjectStore's options and its index
NoStore == [exists |-> FALSE, index |-> "none", keyPath |-> FALSE]
NewStore(keyPath) == [exists |-> TRUE, index |-> "none", keyPath |-> keyPath]
EmptyRecords == [k \in Keys |-> NoValue]

KeysOf(r) == {k \in Keys : r[k] # NoValue}
MinKey(S) == CHOOSE m \in S : \A x \in S : m <= x
RECURSIVE SortedKeys(_)
SortedKeys(S) ==
    IF S = {} THEN <<>> ELSE <<MinKey(S)>> \o SortedKeys(S \ {MinKey(S)})
Take(seq, n) == IF n = 0 \/ Len(seq) <= n THEN seq ELSE SubSeq(seq, 1, n)

\* the keys a query (undefined, or one key) selects, in ascending key order
Matching(r, query) ==
    SortedKeys({k \in KeysOf(r) : query = NoKey \/ k = query})

\* the key add/put stores value under, or BadKey when the call throws DataError:
\* an in-line store takes the key from value.id and accepts no key argument,
\* an out-of-line store (no key generator) needs a valid key argument
StoreKeyExplicitWins(s, value, key) ==
    IF key \in Keys THEN key
    ELSE IF s.keyPath /\ key = NoKey THEN value.id ELSE BadKey
StoreKey(s, value, key) ==
    IF s.keyPath
    THEN IF key = NoKey THEN value.id ELSE BadKey
    ELSE IF key \in Keys THEN key ELSE BadKey

\* another record already holds value's indexed field in a unique index
UniqueClash(s, r, value, k) ==
    /\ s.index = "unique"
    /\ \E k2 \in KeysOf(r) : k2 # k /\ r[k2].name = value.name

\* IDBObjectStore.get / getAll / getAllKeys / count, IDBIndex.get
StoreGet(r, key) == ValueResult(r[key])
StoreGetAll(r, query, limit) ==
    LET ks == Take(Matching(r, query), limit)
    IN  ValuesResult([i \in 1..Len(ks) |-> r[ks[i]]])
StoreGetAllKeys(r, query, limit) == KeysResult(Take(Matching(r, query), limit))
StoreCount(r, query) == CountResult(Len(Matching(r, query)))
IndexGetFirst(r, name) ==
    IF KeysOf(r) = {} THEN Undefined ELSE ValueResult(r[MinKey(KeysOf(r))])
IndexGet(r, name) ==
    LET hits == {k \in KeysOf(r) : r[k].name = name}
    IN  IF hits = {} THEN Undefined ELSE ValueResult(r[MinKey(hits)])

\* IDBObjectStore.add / put / delete / clear: the records afterwards
AddFails(s, r, value, k) == r[k] # NoValue \/ UniqueClash(s, r, value, k)
PutFails(s, r, value, k) == UniqueClash(s, r, value, k)
StoreWrite(r, value, k) == [r EXCEPT ![k] = value]
StoreDelete(r, key) == [r EXCEPT ![key] = NoValue]
StoreClear(r) == EmptyRecords

\* ------------------------------------------------------------------- state
VARIABLES
    version,    \* the database's stored version; 0: the database does not exist
    stores,     \* table -> the object store's definition (NoStore: none)
    data,       \* table -> key -> the record stored, or NoValue
    snap,       \* version, stores and data as the running upgrade found them
    conn,       \* connection -> "unused" | "open" | "closed"
    handed,     \* connection -> the caller got client(db) from a resolved open
    openReq,    \* the idb.open call in flight or last finished
    delReq,     \* the idb.delete call in flight or last finished
    schemaArr,  \* the arrays inside the caller's schema objects
    lastGood,   \* the stores left by the last upgrade whose open resolved
    pending,    \* the client requests made and not yet executed, oldest first
    last,       \* the client call that finished last
    rt,         \* the last resolved insert whose record no later write touched
    counting,   \* the call counters bal and net are kept (fixed at the start)
    bal,        \* table -> resolved inserts minus resolved deletes and clears
    net         \* table -> records created minus records removed by resolved calls

vars == <<version, stores, data, snap, conn, handed, openReq, delReq,
          schemaArr, lastGood, pending, last, rt, counting, bal, net>>
counters == <<counting, bal, net>>

NoStores == [t \in Tables |-> NoStore]
NoData == [t \in Tables |-> EmptyRecords]
Zero == [t \in Tables |-> 0]
NoSnap == [bal |-> Zero, data |-> NoData, net |-> Zero, stores |-> NoStores, version |-> 0]

\* an entry of a schema array: a string, or an options object
Str(text) == [str |-> TRUE, text |-> text, unique |-> FALSE]
Opts(unique) == [str |-> FALSE, text |-> "", unique |-> unique]

IdleOpen ==
    [conn |-> 0, endStores |-> NoStores, endVersion |-> 0, engineError |-> "",
     phase |-> "idle", preStores |-> NoStores, preVersion |-> 0,
     promise |-> PendingPromise, threw |-> FALSE, thrown |-> Undefined,
     upgrades |-> 0, version |-> 0]
\* a request object as its handlers read it
Request(result, error) == [error |-> error, result |-> result]
NoRequest == Request(Undefined, Undefined)
IdleDelete ==
    [first |-> "none", firstReq |-> NoRequest, notes |-> 0, phase |-> "idle",
     promise |-> PendingPromise]

\* a client call: the method and its arguments (those it does not take are
\* NoKey, NoValue, 0, "")
Call(c, op, t, key, value, limit, idx, name) ==
    [conn |-> c, idx |-> idx, key |-> key, limit |-> limit, name |-> name,
     op |-> op, table |-> t, value |-> value]
NoCall == Call(0, "none", "", NoKey, NoValue, 0, "", "")
\* what is kept of the request executed before the last one
Summary(call, jumped, outcome, post, pre, promise) ==
    [call |-> call, jumped |-> jumped, outcome |-> outcome, post |-> post, pre |-> pre,
     promise |-> promise]
NoBefore == Summary(NoCall, FALSE, "none", NoData, NoData, PendingPromise)
\* before: the request executed before this one while this one was waiting;
\* jumped: an earlier request on the same collection was waiting when this
\* one was executed; overlapped: a later request was waiting then
NoLast ==
    [before |-> NoBefore, call |-> NoCall, closedBefore |-> FALSE, first |-> "none",
     firstReq |-> NoRequest, jumped |-> FALSE, notes |-> 0, outcome |-> "none",
     overlapped |-> FALSE, post |-> NoData, pre |-> NoData,
     promise |-> PendingPromise, promised |-> FALSE, thrown |-> Undefined]
NoTrack == [key |-> NoKey, table |-> "", value |-> NoValue]

InitWith(cnt) ==
    /\ counting = cnt
    /\ bal = Zero
    /\ net = Zero
    /\ version = 0
    /\ stores = NoStores
    /\ data = NoData
    /\ snap = NoSnap
    /\ conn = [c \in ConnIds |-> "unused"]
    /\ handed = [c \in ConnIds |-> FALSE]
    /\ openReq = IdleOpen
    /\ delReq = IdleDelete
    /\ schemaArr = [sid \in SchemaIds |->
                      IF sid = "plain" THEN <<Str("name")>>
                      ELSE <<Str("name"), Opts(TRUE)>>]
    /\ lastGood = NoStores
    /\ pending = <<>>
    /\ last = NoLast
    /\ rt = NoTrack
Init == InitWith(FALSE)

OpenConns == {c \in ConnIds : conn[c] = "open"}
FreeConn == CHOOSE c \in ConnIds : conn[c] = "unused" /\ \A d \in ConnIds : conn[d] = "unused" => c <= d
\* the caller's onUpgrade callback is running (it runs to its end before any
\* other event is handled)
InCallback == openReq.phase = "callback"
FactoryBusy == openReq.phase \in {"requesting", "callback", "committing"} \/ delReq.phase = "pending"

\* ------------------------------------------------------------------ idb.open
\* the version idb.open requests: 1 when the argument is left out (0) or is the
\* callback (-1)
RequestedVersion(arg) == IF arg <= 0 THEN 1 ELSE arg

idb_open(arg) ==
    /\ ~FactoryBusy
    /\ \E c \in ConnIds : conn[c] = "unused"
    /\ openReq' = [IdleOpen EXCEPT !.phase = "requesting",
                                   !.version = RequestedVersion(arg),
                                   !.preVersion = version,
                                   !.preStores = stores]
    /\ UNCHANGED <<version, stores, data, snap, conn, handed, delReq, schemaArr, lastGood, pending, last, rt, counting, bal, net>>

\* the stored version is higher: the request fails with VersionError and
\* request.onerror rejects with the event it is given
EngineOpenError ==
    /\ openReq.phase = "requesting"
    /\ openReq.version < version
    /\ openReq' = [openReq EXCEPT !.phase = "done",
                                  !.engineError = "VersionError",
                                  !.endVersion = version, !.endStores = stores,
                                  !.promise = Settle(@, "rejected", EventOf("VersionError"))]
    /\ UNCHANGED <<version, stores, data, snap, conn, handed, delReq, schemaArr, lastGood, pending, last, rt, counting, bal, net>>

\* the stored version is the requested one: request.onsuccess resolves with
\* client(db)
EngineOpenSuccess ==
    /\ openReq.phase = "requesting"
    /\ openReq.version = version
    /\ LET c == FreeConn IN
        /\ conn' = [conn EXCEPT ![c] = "open"]
        /\ handed' = [handed EXCEPT ![c] = TRUE]
        /\ openReq' = [openReq EXCEPT !.phase = "done", !.conn = c,
                                      !.endVersion = version, !.endStores = stores,
                                      !.promise = Settle(@, "resolved", ClientOf(c))]
    /\ UNCHANGED <<version, stores, data, snap, delReq, schemaArr, lastGood, pending, last, rt, counting, bal, net>>

\* an engine that fires upgradeneeded also when the stored version is the
\* requested one
EngineUpgradeAnyVersion ==
    /\ openReq.phase = "requesting"
    /\ openReq.version >= version
    /\ OpenConns = {}
    /\ pending = <<>>
    /\ LET c == FreeConn IN
        /\ conn' = [conn EXCEPT ![c] = "open"]
        /\ openReq' = [openReq EXCEPT !.phase = "callback", !.conn = c,
                                      !.upgrades = @ + 1]
    /\ snap' = [bal |-> bal, data |-> data, net |-> net, stores |-> stores,
                version |-> version]
    /\ version' = openReq.version
    /\ UNCHANGED <<stores, data, handed, delReq, schemaArr, lastGood, pending, last, rt,
                   counting, bal, net>>

\* the requested version is higher (or there is no database): once every other
\* connection is closed the engine starts the versionchange transaction and
\* fires upgradeneeded; the handler sets db.onerror and calls fn
EngineUpgradeNeeded ==
    /\ openReq.phase = "requesting"
    /\ openReq.version > version
    /\ OpenConns = {}
    /\ pending = <<>>
    /\ LET c == FreeConn IN
        /\ conn' = [conn EXCEPT ![c] = "open"]
        /\ openReq' = [openReq EXCEPT !.phase = "callback", !.conn = c,
                                      !.upgrades = @ + 1]
    /\ snap' = [bal |-> bal, data |-> data, net |-> net, stores |-> stores,
                version |-> version]
    /\ version' = openReq.version
    /\ UNCHANGED <<stores, data, handed, delReq, schemaArr, lastGood, pending, last, rt,
                   counting, bal, net>>

\* ------------------------------------------------------------------ upgrade
\* store.createIndex(...arr): "" when it succeeds, else the error it throws.
\* A third argument that is a string is no options dictionary (TypeError); a
\* key path that is an object is no valid key path (SyntaxError).
CreateIndexError(arr) ==
    IF Len(arr) >= 3 /\ arr[3].str THEN "TypeError"
    ELSE IF ~arr[2].str THEN "SyntaxError"
    ELSE ""
IndexKind(arr) == IF Len(arr) >= 3 /\ arr[3].unique THEN "unique" ELSE "multi"

\* fn threw err (its own throw, or an uncaught throw of a facade call): the
\* handler's catch rejects with err; the handler returns normally
CallbackThrewSwallows(req, err) ==
    [req EXCEPT !.phase = "committing", !.threw = TRUE, !.thrown = err]
CallbackThrew(req, err) ==
    [req EXCEPT !.phase = "committing", !.threw = TRUE, !.thrown = err,
                !.promise = Settle(@, "rejected", err)]

\* upgrade.create(table, options, schema) called by fn; sid = "none": no schema.
\* caught: fn catches what the call throws and goes on.
upgrade_create(t, keyPath, sid, caught) ==
    /\ InCallback
    /\ sid # "none" => Len(schemaArr[sid]) < MaxSchemaLen
    /\ IF stores[t].exists
       THEN \* createObjectStore throws ConstraintError
            /\ openReq' = IF caught THEN openReq
                          ELSE CallbackThrew(openReq, ErrorValue("ConstraintError"))
            /\ UNCHANGED <<stores, data, schemaArr>>
       ELSE IF sid = "none"
       THEN /\ stores' = [stores EXCEPT ![t] = NewStore(keyPath)]
            /\ data' = [data EXCEPT ![t] = EmptyRecords]
            /\ UNCHANGED <<openReq, schemaArr>>
       ELSE LET arr == <<Str(IndexName)>> \o schemaArr[sid]
                err == CreateIndexError(arr)
            IN  /\ schemaArr' = [schemaArr EXCEPT ![sid] = arr]
                /\ data' = [data EXCEPT ![t] = EmptyRecords]
                /\ stores' = [stores EXCEPT ![t] =
                                IF err = "" THEN [NewStore(keyPath) EXCEPT !.index = IndexKind(arr)]
                                ELSE NewStore(keyPath)]
                /\ openReq' = IF err = "" \/ caught THEN openReq
                              ELSE CallbackThrew(openReq, ErrorValue(err))
    /\ UNCHANGED <<version, snap, conn, handed, delReq, lastGood, pending, last, rt, counting, bal, net>>

\* upgrade.delete(table) called by fn
upgrade_delete(t, caught) ==
    /\ InCallback
    /\ IF stores[t].exists
       THEN /\ stores' = [stores EXCEPT ![t] = NoStore]
            /\ data' = [data EXCEPT ![t] = EmptyRecords]
            /\ UNCHANGED openReq
       ELSE \* deleteObjectStore throws NotFoundError
            /\ openReq' = IF caught THEN openReq
                          ELSE CallbackThrew(openReq, ErrorValue("NotFoundError"))
            /\ UNCHANGED <<stores, data>>
    /\ rt' = IF stores[t].exists /\ rt.table = t THEN NoTrack ELSE rt
    /\ bal' = IF stores[t].exists THEN [bal EXCEPT ![t] = 0] ELSE bal
    /\ net' = IF stores[t].exists THEN [net EXCEPT ![t] = 0] ELSE net
    /\ UNCHANGED <<version, snap, conn, handed, delReq, schemaArr, lastGood, pending, last, counting>>

\* fn throws a value of its own
CallbackThrows ==
    /\ InCallback
    /\ openReq' = CallbackThrew(openReq, UserError)
    /\ UNCHANGED <<version, stores, data, snap, conn, handed, delReq, schemaArr, lastGood, pending, last, rt, counting, bal, net>>

\* fn returns
CallbackReturns ==
    /\ InCallback
    /\ openReq' = [openReq EXCEPT !.phase = "committing"]
    /\ UNCHANGED <<version, stores, data, snap, conn, handed, delReq, schemaArr, lastGood, pending, last, rt, counting, bal, net>>

\* the versionchange transaction commits (nothing in the handler aborted it)
\* and the request's success event fires: request.onsuccess calls
\* resolve(client(db))
EngineUpgradeCommit ==
    /\ openReq.phase = "committing"
    /\ openReq' = [openReq EXCEPT !.phase = "done",
                                  !.endVersion = version, !.endStores = stores,
                                  !.promise = Settle(@, "resolved", ClientOf(openReq.conn))]
    /\ handed' = [handed EXCEPT ![openReq.conn] = (openReq.promise.state = "pending")]
    /\ lastGood' = IF openReq.promise.state = "pending" THEN stores ELSE lastGood
    /\ snap' = NoSnap
    /\ UNCHANGED <<version, stores, data, conn, delReq, schemaArr, pending, last, rt>>
    /\ UNCHANGED counters

\* the versionchange transaction aborts in the engine: because a request made
\* on it failed (bubbled: the error event reaches db.onerror first) or because
\* the commit failed.  The upgrade is rolled back, the connection closed, and
\* the open request's error event fires.
EngineUpgradeAbort(bubbled) ==
    /\ openReq.phase = "committing"
    /\ LET p1 == IF bubbled THEN Settle(openReq.promise, "rejected", EventOf("ConstraintError"))
                 ELSE openReq.promise
       IN  openReq' = [openReq EXCEPT !.phase = "done",
                                      !.engineError = "AbortError",
                                      !.endVersion = snap.version, !.endStores = snap.stores,
                                      !.promise = Settle(p1, "rejected", EventOf("AbortError"))]
    /\ version' = snap.version
    /\ stores' = snap.stores
    /\ data' = snap.data
    /\ snap' = NoSnap
    /\ bal' = snap.bal
    /\ net' = snap.net
    /\ conn' = [conn EXCEPT ![openReq.conn] = "unused"]
    /\ UNCHANGED <<handed, delReq, schemaArr, lastGood, pending, last, rt, counting>>

\* ------------------------------------------------------------- idb.delete
\* promisify(request): the two handlers it installs, run for a notification
\* (how = "success" | "error") on the request as it is at that moment
promisifyDropsResult(p, how, request) ==
    IF how = "success" THEN Settle(p, "resolved", Undefined)
    ELSE Settle(p, "rejected", request.error)
promisify(p, how, request) ==
    IF how = "success" THEN Settle(p, "resolved", request.result)
    ELSE Settle(p, "rejected", request.error)

\* the engine fires the request's success or error event: the handler runs,
\* and the first notification is remembered
Notified(r, how, request) ==
    [r EXCEPT !.phase = "done",
              !.promise = promisify(@, how, request),
              !.first = IF r.notes = 0 THEN how ELSE @,
              !.firstReq = IF r.notes = 0 THEN request ELSE @,
              !.notes = @ + 1]

idb_delete ==
    /\ ~FactoryBusy
    /\ ~InCallback
    /\ delReq' = [IdleDelete EXCEPT !.phase = "pending"]
    /\ UNCHANGED <<version, stores, data, snap, conn, handed, openReq, schemaArr,
                   lastGood, pending, last, rt, counting, bal, net>>

\* deleteDatabase runs once every connection is closed
EngineDeleteSuccess ==
    /\ delReq.phase = "pending"
    /\ OpenConns = {}
    /\ pending = <<>>
    /\ version' = 0
    /\ stores' = NoStores
    /\ data' = NoData
    /\ rt' = NoTrack
    /\ delReq' = Notified(delReq, "success", NoRequest)
    /\ bal' = Zero
    /\ net' = Zero
    /\ UNCHANGED <<snap, conn, handed, openReq, schemaArr, lastGood, pending, last, counting>>

\* deleteDatabase fails in the engine (a storage failure)
EngineDeleteError ==
    /\ delReq.phase = "pending"
    /\ delReq' = Notified(delReq, "error", Request(Undefined, ErrorValue("UnknownError")))
    /\ UNCHANGED <<version, stores, data, snap, conn, handed, openReq, schemaArr,
                   lastGood, pending, last, rt, counting, bal, net>>

\* ------------------------------------------------------------------ client
\* the engine call each client method makes, and its transaction's mode
PrimitiveInsertPuts(op) ==
    CASE op = "select" -> "get"
      [] op = "selectAll" -> "getAll"
      [] op = "selectAllKeys" -> "getAllKeys"
      [] op = "selectIndex" -> "index.get"
      [] op = "delete" -> "delete"
      [] op = "insert" -> "put"
      [] op = "update" -> "put"
      [] op = "clear" -> "clear"
      [] op = "count" -> "count"
PrimitiveDeleteClears(op) ==
    CASE op = "select" -> "get"
      [] op = "selectAll" -> "getAll"
      [] op = "selectAllKeys" -> "getAllKeys"
      [] op = "selectIndex" -> "index.get"
      [] op = "delete" -> "clear"
      [] op = "insert" -> "add"
      [] op = "update" -> "put"
      [] op = "clear" -> "clear"
      [] op = "count" -> "count"
PrimitiveCountClears(op) ==
    CASE op = "select" -> "get"
      [] op = "selectAll" -> "getAll"
      [] op = "selectAllKeys" -> "getAllKeys"
      [] op = "selectIndex" -> "index.get"
      [] op = "delete" -> "delete"
      [] op = "insert" -> "add"
      [] op = "update" -> "put"
      [] op = "clear" -> "clear"
      [] op = "count" -> "clear"
Primitive(op) ==
    CASE op = "select" -> "get"
      [] op = "selectAll" -> "getAll"
      [] op = "selectAllKeys" -> "getAllKeys"
      [] op = "selectIndex" -> "index.get"
      [] op = "delete" -> "delete"
      [] op = "insert" -> "add"
      [] op = "update" -> "put"
      [] op = "clear" -> "clear"
      [] op = "count" -> "count"
TxMode(op) ==
    IF op \in {"delete", "insert", "update", "clear"} THEN "readwrite" ELSE "readonly"

\* what the engine throws while the method builds its request, "" if nothing:
\* db.transaction (closed connection, unknown store), objectStore.index
\* (unknown index), then the request call itself (invalid key, or a key
\* argument that does not fit the store's key configuration)
CallErrorIgnoresClosed(call) ==
    LET s == stores[call.table]
        prim == Primitive(call.op)
    IN  IF ~s.exists THEN "NotFoundError"
        ELSE IF prim = "index.get" /\ (s.index = "none" \/ call.idx # IndexName)
             THEN "NotFoundError"
        ELSE IF prim \in {"get", "delete"} /\ call.key \notin Keys THEN "DataError"
        ELSE IF prim \in {"getAll", "getAllKeys", "count"} /\ call.key = BadKey
             THEN "DataError"
        ELSE IF prim \in {"add", "put"} /\ StoreKey(s, call.value, call.key) = BadKey
             THEN "DataError"
        ELSE ""
CallError(call) ==
    LET s == stores[call.table]
        prim == Primitive(call.op)
    IN  IF conn[call.conn] # "open" THEN "InvalidStateError"
        ELSE IF ~s.exists THEN "NotFoundError"
        ELSE IF prim = "index.get" /\ (s.index = "none" \/ call.idx # IndexName)
             THEN "NotFoundError"
        ELSE IF prim \in {"get", "delete"} /\ call.key \notin Keys THEN "DataError"
        ELSE IF prim \in {"getAll", "getAllKeys", "count"} /\ call.key = BadKey
             THEN "DataError"
        ELSE IF prim \in {"add", "put"} /\ StoreKey(s, call.value, call.key) = BadKey
             THEN "DataError"
        ELSE ""

\* the request's outcome when the engine executes it: the error it reports
\* ("" for success), its result, and the store's records afterwards
ExecError(call) ==
    LET s == stores[call.table]
        r == data[call.table]
        k == StoreKey(s, call.value, call.key)
    IN  CASE Primitive(call.op) = "add" ->
               IF AddFails(s, r, call.value, k) THEN "ConstraintError" ELSE ""
          [] Primitive(call.op) = "put" ->
               IF PutFails(s, r, call.value, k) THEN "ConstraintError" ELSE ""
          [] OTHER -> ""
ExecResult(call) ==
    LET s == stores[call.table]
        r == data[call.table]
        prim == Primitive(call.op)
    IN  CASE prim = "get" -> StoreGet(r, call.key)
          [] prim = "getAll" -> StoreGetAll(r, call.key, call.limit)
          [] prim = "getAllKeys" -> StoreGetAllKeys(r, call.key, call.limit)
          [] prim = "index.get" -> IndexGet(r, call.name)
          [] prim = "count" -> StoreCount(r, call.key)
          [] prim \in {"add", "put"} -> KeyResult(StoreKey(s, call.value, call.key))
          [] OTHER -> Undefined
ExecRecords(call) ==
    LET s == stores[call.table]
        r == data[call.table]
        prim == Primitive(call.op)
    IN  CASE prim \in {"add", "put"} -> StoreWrite(r, call.value, StoreKey(s, call.value, call.key))
          [] prim = "delete" -> StoreDelete(r, call.key)
          [] prim = "clear" -> StoreClear(r)
          [] OTHER -> r

\* a client data method: the engine throws while the request is built, or
\* promisify(request) returns a promise and the request waits for the engine
ClientCall(call) ==
    /\ ~InCallback
    /\ handed[call.conn]
    /\ Len(pending) < MaxPending
    /\ (counting /\ TxMode(call.op) = "readwrite") =>
          (bal[call.table] < MaxDrift /\ bal[call.table] > -MaxDrift)
    /\ LET err == CallError(call) IN
        IF err # ""
        THEN /\ last' = [NoLast EXCEPT !.call = call, !.outcome = "thrown",
                                       !.thrown = ErrorValue(err),
                                       !.closedBefore = (conn[call.conn] = "closed"),
                                       !.pre = data, !.post = data]
             /\ UNCHANGED pending
        ELSE /\ pending' = Append(pending, call)
             /\ last' = NoLast
    /\ UNCHANGED <<version, stores, data, snap, conn, handed, openReq, delReq,
                   schemaArr, lastGood, rt, counting, bal, net>>

select(c, t, key) == ClientCall(Call(c, "select", t, key, NoValue, 0, "", ""))
selectAll(c, t, query, count) == ClientCall(Call(c, "selectAll", t, query, NoValue, count, "", ""))
selectAllKeys(c, t, query, count) == ClientCall(Call(c, "selectAllKeys", t, query, NoValue, count, "", ""))
selectIndex(c, t, index, key) == ClientCall(Call(c, "selectIndex", t, NoKey, NoValue, 0, index, key))
delete(c, t, key) == ClientCall(Call(c, "delete", t, key, NoValue, 0, "", ""))
insert(c, t, value, key) == ClientCall(Call(c, "insert", t, key, value, 0, "", ""))
update(c, t, value, key) == ClientCall(Call(c, "update", t, key, value, 0, "", ""))
clear(c, t) == ClientCall(Call(c, "clear", t, NoKey, NoValue, 0, "", ""))
count(c, t, query) == ClientCall(Call(c, "count", t, query, NoValue, 0, "", ""))

\* close: () => db.close().  Closing a closed connection does nothing and
\* throws nothing.
close(c) ==
    /\ ~InCallback
    /\ handed[c]
    /\ conn' = [conn EXCEPT ![c] = "closed"]
    /\ last' = [NoLast EXCEPT !.call = Call(c, "close", "", NoKey, NoValue, 0, "", ""),
                              !.outcome = "returned",
                              !.closedBefore = (conn[c] = "closed"),
                              !.pre = data, !.post = data]
    /\ UNCHANGED <<version, stores, data, snap, handed, openReq, delReq, schemaArr,
                   lastGood, pending, rt, counting, bal, net>>

\* a transaction starts once every earlier transaction whose scope overlaps
\* its own has finished, unless both only read
CanRunAnyOrder(i) == TRUE
CanRun(i) ==
    \A j \in 1..(i - 1) :
        \/ pending[j].table # pending[i].table
        \/ (TxMode(pending[j].op) = "readonly" /\ TxMode(pending[i].op) = "readonly")
Without(seq, i) == [j \in 1..(Len(seq) - 1) |-> IF j < i THEN seq[j] ELSE seq[j + 1]]

\* the last resolved insert into an in-line store still in force after call
Track(call, how) ==
    LET s == stores[call.table]
        k == StoreKey(s, call.value, call.key)
    IN  IF how # "success" THEN rt
        ELSE IF call.op = "insert" /\ s.keyPath
             THEN [key |-> k, table |-> call.table, value |-> call.value]
        ELSE IF /\ call.table = rt.table
                /\ \/ call.op = "clear"
                   \/ call.op \in {"insert", "update"} /\ k = rt.key
                   \/ call.op = "delete" /\ call.key = rt.key
             THEN NoTrack
        ELSE rt

\* what a resolved call adds to "inserts minus deletes and clears"
ClaimedChange(op) ==
    CASE op = "insert" -> 1
      [] op \in {"delete", "clear"} -> -1
      [] OTHER -> 0
\* the records a call that succeeds creates, and those it removes
Created(call) ==
    LET k == StoreKey(stores[call.table], call.value, call.key)
    IN  IF call.op \in {"insert", "update"} /\ data[call.table][k] = NoValue THEN 1 ELSE 0
Removed(call) ==
    CASE call.op = "delete" ->
            IF call.key \in Keys /\ data[call.table][call.key] # NoValue THEN 1 ELSE 0
      [] call.op = "clear" -> Cardinality(KeysOf(data[call.table]))
      [] OTHER -> 0

\* the engine executes a request and fires its success or error event, which
\* runs the handler promisify installed
EngineExec(i) ==
    /\ i \in 1..Len(pending)
    /\ CanRun(i)
    /\ LET call == pending[i]
           err == ExecError(call)
           how == IF err = "" THEN "success" ELSE "error"
           req == IF err = "" THEN Request(ExecResult(call), Undefined)
                  ELSE Request(Undefined, ErrorValue(err))
           p == promisify(PendingPromise, how, req)
           done == [NoLast EXCEPT !.call = call, !.promised = TRUE,
                                  !.outcome = p.state, !.promise = p,
                                  !.first = how, !.firstReq = req, !.notes = 1,
                                  !.before = IF last.overlapped
                                             THEN Summary(last.call, last.jumped, last.outcome,
                                                          last.post, last.pre, last.promise)
                                             ELSE NoBefore,
                                  !.jumped = \E j \in 1..(i - 1) : pending[j].table = call.table,
                                  !.overlapped = (Len(pending) >= 2)]
           after == IF err = "" THEN [data EXCEPT ![call.table] = ExecRecords(call)]
                    ELSE data
       IN  /\ data' = after
           /\ rt' = Track(call, how)
           /\ bal' = IF counting /\ how = "success"
                     THEN [bal EXCEPT ![call.table] = @ + ClaimedChange(call.op)]
                     ELSE bal
           /\ net' = IF counting /\ how = "success"
                     THEN [net EXCEPT ![call.table] = @ + Created(call) - Removed(call)]
                     ELSE net
           /\ last' = [done EXCEPT !.pre = data, !.post = after]
    /\ pending' = Without(pending, i)
    /\ UNCHANGED <<version, stores, snap, conn, handed, openReq, delReq, schemaArr,
                   lastGood, counting>>

\* the engine fires one more event on a request that has had one (the
\* handlers promisify installed stay installed), with the request's result and
\* error as they are by then
EngineNotifiesAgain(how, request) ==
    /\ last.promised
    /\ last.notes < MaxNotify
    /\ LET p == promisify(last.promise, how, request)
       IN  last' = [last EXCEPT !.promise = p, !.outcome = p.state, !.notes = @ + 1]
    /\ UNCHANGED <<version, stores, data, snap, conn, handed, openReq, delReq, schemaArr,
                   lastGood, pending, rt, counting, bal, net>>

EngineNotifiesDeleteAgain(how, request) ==
    /\ delReq.phase = "done"
    /\ delReq.notes < MaxNotify
    /\ delReq' = Notified(delReq, how, request)
    /\ UNCHANGED <<version, stores, data, snap, conn, handed, openReq, schemaArr,
                   lastGood, pending, last, rt, counting, bal, net>>

\* ---------------------------------------------------- the specifications
\* the caller awaits each promise before the next call
Awaits == pending = <<>>
KeyArgs == Keys \cup {NoKey, BadKey}
\* the values the caller writes: any into items, those with id 1 into logs
ValueArgs(t) == IF t = "logs" THEN {v \in Values : v.id = 1} ELSE Values
\* the (query, count) pairs the caller passes to selectAll and selectAllKeys
QueryArgs == {<<NoKey, 0>>, <<NoKey, 1>>, <<2, 0>>, <<BadKey, 0>>}
VersionArgs == (1..MaxVersion) \cup {0, -1}

\* Spec: opening, upgrading, closing and deleting the database, with every
\* choice the onUpgrade callback has
Next ==
    \/ \E arg \in VersionArgs : idb_open(arg)
    \/ EngineOpenError
    \/ EngineOpenSuccess
    \/ EngineUpgradeNeeded
    \/ \E t \in Tables, keyPath \in BOOLEAN, sid \in SchemaIds \cup {"none"}, caught \in BOOLEAN :
          upgrade_create(t, keyPath, sid, caught)
    \/ \E t \in Tables, caught \in BOOLEAN : upgrade_delete(t, caught)
    \/ CallbackThrows
    \/ CallbackReturns
    \/ EngineUpgradeCommit
    \/ \E bubbled \in BOOLEAN : EngineUpgradeAbort(bubbled)
    \/ idb_delete
    \/ EngineDeleteSuccess
    \/ EngineDeleteError
    \/ \E c \in ConnIds : close(c)

Spec == Init /\ [][Next]_vars

\* SpecData: the caller opens the database once, at version 1, its callback
\* creating one of a few schemas, and then uses every client method
\*   items in-line with index byName | items in-line with unique byName
\*   | items out-of-line, no index;  logs in-line beside the first of these
DataSchema(t, keyPath, sid) ==
    \/ t = "items" /\ keyPath /\ sid \in SchemaIds
    \/ t = "items" /\ ~keyPath /\ sid = "none"
    \/ t = "logs" /\ keyPath /\ sid = "none" /\ stores["items"].index = "multi"

OpenOnce == version = 0 /\ \E arg \in {-1, 0, 1} : idb_open(arg)
Opening(Schema(_, _, _)) ==
    \/ OpenOnce
    \/ EngineUpgradeNeeded
    \/ \E t \in Tables, keyPath \in BOOLEAN, sid \in SchemaIds \cup {"none"} :
          Schema(t, keyPath, sid) /\ upgrade_create(t, keyPath, sid, FALSE)
    \/ CallbackReturns
    \/ EngineUpgradeCommit

Reads(TS, KA, QA) ==
    \/ \E c \in ConnIds, t \in TS, key \in KA : select(c, t, key)
    \/ \E c \in ConnIds, t \in TS, q \in QA : selectAll(c, t, q[1], q[2])
    \/ \E c \in ConnIds, t \in TS, q \in QA : selectAllKeys(c, t, q[1], q[2])
    \/ \E c \in ConnIds, t \in TS, index \in {IndexName, "byAge"}, key \in Names :
          selectIndex(c, t, index, key)
    \/ \E c \in ConnIds, t \in TS, query \in KA : count(c, t, query)
Writes(TS, KA, VA(_)) ==
    \/ \E c \in ConnIds, t \in TS, key \in KA : delete(c, t, key)
    \/ \E c \in ConnIds, t \in TS, key \in KA : \E value \in VA(t) : insert(c, t, value, key)
    \/ \E c \in ConnIds, t \in TS, key \in KA : \E value \in VA(t) : update(c, t, value, key)
    \/ \E c \in ConnIds, t \in TS : clear(c, t)
Engine == \E i \in 1..MaxPending : EngineExec(i)

NextData ==
    \/ Opening(DataSchema)
    \/ Awaits /\ Reads(Tables, KeyArgs, QueryArgs)
    \/ Awaits /\ Writes(Tables, KeyArgs, ValueArgs)
    \/ \E c \in ConnIds : close(c)
    \/ Engine

SpecData == Init /\ [][NextData]_vars

\* SpecCount: the call counters kept; the caller creates items (in-line with
\* index byName, or out-of-line) and writes to and counts the tables
CountSchema(t, keyPath, sid) ==
    t = "items" /\ ((keyPath /\ sid = "plain") \/ (~keyPath /\ sid = "none"))
NextCount ==
    \/ Opening(CountSchema)
    \/ Awaits /\ Writes(Tables, Keys \cup {NoKey}, ValueArgs)
    \/ \E c \in ConnIds, t \in Tables : Awaits /\ count(c, t, NoKey)
    \/ Engine

SpecCount == InitWith(TRUE) /\ [][NextCount]_vars

\* SpecNotify: every client method on key 1 and idb.delete, with an engine
\* that may fire further events on a request
LaterRequests ==
    {Request(KeyResult(2), Undefined), Request(Undefined, ErrorValue("AbortError"))}
NotifyValues(t) == {v \in Values : v.id = 1}
NextNotify ==
    \/ Opening(DataSchema)
    \/ Awaits /\ Reads({"items"}, {1, NoKey}, {<<NoKey, 0>>})
    \/ Awaits /\ Writes({"items"}, {1, NoKey}, NotifyValues)
    \/ \E c \in ConnIds : close(c)
    \/ Engine
    \/ idb_delete
    \/ EngineDeleteSuccess
    \/ EngineDeleteError
    \/ \E how \in {"success", "error"}, request \in LaterRequests :
          EngineNotifiesAgain(how, request)
    \/ \E how \in {"success", "error"}, request \in LaterRequests :
          EngineNotifiesDeleteAgain(how, request)

SpecNotify == Init /\ [][NextNotify]_vars

\* ------------------------------------------- the validating variant
\* src/unnamed/part_000 holds the module with assertName in front of the
\* engine calls.  A name argument is a string, or NotAString for a value of
\* another type (a number, undefined).
NotAString == "<not a string>"
ValidNames == Tables \cup {"T"}
NameArgs == ValidNames \cup {"", NotAString}
\* assertName(name, label) returns: typeof name === "string" && name !== ""
assertName(name) == name # NotAString /\ name # ""
\* the TypeError assertName throws
NameError == Mk("thrown", "TypeError", 0, NoValue, <<>>, <<>>)
\* a call of the variant that assertName stopped: it throws before any engine
\* call, and nothing changes
NameThrown(call) ==
    /\ last' = [NoLast EXCEPT !.call = call, !.outcome = "thrown", !.thrown = NameError,
                              !.pre = data, !.post = data]
    /\ UNCHANGED <<version, stores, data, snap, conn, handed, openReq, delReq,
                   schemaArr, lastGood, pending, rt, counting, bal, net>>

\* a client data method of the variant: assertName(table), then the method
\* as in src/idb.js (the index argument of selectIndex is not checked)
checked_client(call) ==
    IF assertName(call.table) THEN ClientCall(call)
    ELSE ~InCallback /\ handed[call.conn] /\ NameThrown(call)
\* idb.open(name, version, fn) and idb.delete(name) of the variant
checked_open(name, arg) ==
    IF assertName(name) THEN idb_open(arg)
    ELSE ~InCallback /\ NameThrown(Call(0, "idb.open", name, NoKey, NoValue, 0, "", ""))
checked_delete(name) ==
    IF assertName(name) THEN idb_delete
    ELSE ~InCallback /\ NameThrown(Call(0, "idb.delete", name, NoKey, NoValue, 0, "", ""))
\* upgrade.create and upgrade.delete of the variant, called by fn: the
\* TypeError of assertName leaves fn, so the handler's catch rejects with it
checked_upgrade(op, name) ==
    /\ InCallback
    /\ last' = [NoLast EXCEPT !.call = Call(openReq.conn, op, name, NoKey, NoValue, 0, "", ""),
                              !.outcome = "thrown", !.thrown = NameError,
                              !.pre = data, !.post = data]
    /\ openReq' = CallbackThrew(openReq, NameError)
    /\ UNCHANGED <<version, stores, data, snap, conn, handed, delReq,
                   schemaArr, lastGood, pending, rt, counting, bal, net>>
checked_create(name, keyPath, sid) ==
    IF assertName(name) THEN name \in Tables /\ upgrade_create(name, keyPath, sid, FALSE)
    ELSE checked_upgrade("upgrade.create", name)
checked_upgrade_delete(name) ==
    IF assertName(name) THEN name \in Tables /\ upgrade_delete(name, FALSE)
    ELSE checked_upgrade("upgrade.delete", name)

\* SpecValid: the variant's operations with valid, empty and non-string names
TableArgs == {"items", "", NotAString}
IndexArgs == {IndexName, "", NotAString}
CheckedCalls ==
    UNION {
      {Call(c, op, t, 1, NoValue, 0, "", "") : op \in {"select", "delete"}}
      \cup {Call(c, op, t, NoKey, NoValue, 0, "", "") :
               op \in {"selectAll", "selectAllKeys", "clear", "count"}}
      \cup {Call(c, "selectIndex", t, NoKey, NoValue, 0, index, "a") : index \in IndexArgs}
      \cup {Call(c, op, t, NoKey, [id |-> 1, name |-> "a"], 0, "", "") :
               op \in {"insert", "update"}}
      : c \in ConnIds, t \in TableArgs}
NextValid ==
    \/ \E name \in {"T", "", NotAString} : checked_open(name, 1)
    \/ EngineOpenSuccess
    \/ EngineUpgradeNeeded
    \/ \E name \in TableArgs, sid \in {"none", "plain"} : checked_create(name, TRUE, sid)
    \/ \E name \in TableArgs : checked_upgrade_delete(name)
    \/ CallbackReturns
    \/ EngineUpgradeCommit
    \/ \E call \in CheckedCalls : Awaits /\ checked_client(call)
    \/ \E c \in ConnIds : close(c)
    \/ Engine
    \/ \E name \in {"T", "", NotAString} : checked_delete(name)
    \/ EngineDeleteSuccess

SpecValid == Init /\ [][NextValid]_vars

\* --------------------------------------------- the Upgrade Facade, kept
\* The caller keeps the facade fn was given and calls it once the open promise
\* has settled.  db.createObjectStore and db.deleteObjectStore need the
\* connection's versionchange transaction, live and active:
\*   active: the call is made in a reaction to the promise the handler's catch
\*     rejected; reactions run as the handler returns, inside the dispatch of
\*     upgradeneeded, where the transaction is still active;
\*   otherwise the transaction is inactive (TransactionInactiveError) until it
\*     has finished, and then there is none (InvalidStateError).
KeptError == IF openReq.phase = "committing" THEN "TransactionInactiveError" ELSE "InvalidStateError"
Kept(op, t) == Call(openReq.conn, op, t, NoKey, NoValue, 0, "", "")
KeptCall(active) ==
    /\ openReq.upgrades = 1
    /\ openReq.phase \in {"committing", "done"}
    /\ openReq.promise.state # "pending"
    /\ active => openReq.phase = "committing"
KeptThrew(call, err) ==
    /\ last' = [NoLast EXCEPT !.call = call, !.outcome = "thrown", !.thrown = ErrorValue(err),
                              !.pre = data, !.post = data]
    /\ UNCHANGED <<stores, data, rt, bal, net>>

\* upgrade.create(table, options) on the kept facade
kept_create(t, keyPath, active) ==
    /\ KeptCall(active)
    /\ IF ~active THEN KeptThrew(Kept("upgrade.create", t), KeptError)
       ELSE IF stores[t].exists THEN KeptThrew(Kept("upgrade.create", t), "ConstraintError")
       ELSE /\ stores' = [stores EXCEPT ![t] = NewStore(keyPath)]
            /\ data' = [data EXCEPT ![t] = EmptyRecords]
            /\ last' = [NoLast EXCEPT !.call = Kept("upgrade.create", t), !.outcome = "returned",
                                      !.pre = data, !.post = data']
            /\ UNCHANGED <<rt, bal, net>>
    /\ UNCHANGED <<version, snap, conn, handed, openReq, delReq, schemaArr, lastGood,
                   pending, counting>>

\* upgrade.delete(table) on the kept facade
kept_delete(t, active) ==
    /\ KeptCall(active)
    /\ IF ~active THEN KeptThrew(Kept("upgrade.delete", t), KeptError)
       ELSE IF ~stores[t].exists THEN KeptThrew(Kept("upgrade.delete", t), "NotFoundError")
       ELSE /\ stores' = [stores EXCEPT ![t] = NoStore]
            /\ data' = [data EXCEPT ![t] = EmptyRecords]
            /\ last' = [NoLast EXCEPT !.call = Kept("upgrade.delete", t), !.outcome = "returned",
                                      !.pre = data, !.post = data']
            /\ rt' = IF rt.table = t THEN NoTrack ELSE rt
            /\ bal' = [bal EXCEPT ![t] = 0]
            /\ net' = [net EXCEPT ![t] = 0]
    /\ UNCHANGED <<version, snap, conn, handed, openReq, delReq, schemaArr, lastGood,
                   pending, counting>>

\* SpecKept: opening at versions 1 and 2 with a callback that creates
\* collections and returns or throws, the kept facade used afterwards, and
\* writes through the client
NextKept ==
    \/ \E arg \in {1, 2} : idb_open(arg)
    \/ EngineOpenSuccess
    \/ EngineUpgradeNeeded
    \/ \E t \in Tables : upgrade_create(t, TRUE, "none", FALSE)
    \/ CallbackThrows
    \/ CallbackReturns
    \/ EngineUpgradeCommit
    \/ EngineUpgradeAbort(FALSE)
    \/ \E t \in Tables, active \in BOOLEAN : kept_create(t, TRUE, active)
    \/ \E t \in Tables, active \in BOOLEAN : kept_delete(t, active)
    \/ Awaits /\ Writes({"items"}, {NoKey}, NotifyValues)
    \/ \E c \in ConnIds : close(c)
    \/ Engine

SpecKept == Init /\ [][NextKept]_vars

\* SpecPair: the caller writes to items, a collection keyed by "id" with the
\* index byName, without awaiting: up to MaxPending requests wait at a time
PairSchema(t, keyPath, sid) == t = "items" /\ keyPath /\ sid \in SchemaIds
NextPair ==
    \/ Opening(PairSchema)
    \/ Writes({"items"}, {1, NoKey}, ValueArgs)
    \/ Engine

SpecPair == Init /\ [][NextPair]_vars

\* SpecLive: opening, upgrading, closing and deleting the database when the
\* engine keeps working and every caller that was handed a Connection Facade
\* closes it.  The engine fires an event that stays due (success of an open
\* or a delete, upgradeneeded, the end of the versionchange transaction); the
\* onUpgrade callback runs to its end; a facade that was handed out and is
\* open gets closed.  Failures of the engine are possible and never required.
ClosesHanded(c) == conn[c] = "open" /\ close(c)
NextLive ==
    \/ \E arg \in 1..MaxVersion : idb_open(arg)
    \/ EngineOpenError
    \/ EngineOpenSuccess
    \/ EngineUpgradeNeeded
    \/ \E t \in Tables : upgrade_create(t, TRUE, "none", FALSE)
    \/ \E t \in Tables : upgrade_delete(t, FALSE)
    \/ CallbackThrows
    \/ CallbackReturns
    \/ EngineUpgradeCommit
    \/ \E bubbled \in BOOLEAN : EngineUpgradeAbort(bubbled)
    \/ idb_delete
    \/ EngineDeleteSuccess
    \/ EngineDeleteError
    \/ \E c \in ConnIds : close(c)
FairLive ==
    /\ WF_vars(EngineOpenError)
    /\ WF_vars(EngineOpenSuccess)
    /\ WF_vars(EngineUpgradeNeeded)
    /\ WF_vars(CallbackThrows \/ CallbackReturns)
    /\ WF_vars(EngineUpgradeCommit)
    /\ WF_vars(EngineDeleteSuccess)
    /\ \A c \in ConnIds : WF_vars(ClosesHanded(c))

SpecLive == Init /\ [][NextLive]_vars /\ FairLive

\* SpecCommit: the caller writes to items, awaiting each promise, and the
\* engine may fail to commit a transaction whose request has succeeded.
WriteMethods == {"insert", "update", "delete", "clear"}
\* the readwrite transaction of the last request, whose success event has run
\* the handler promisify installed, fails to commit (QuotaExceededError, a
\* storage failure): the engine aborts it and takes back what it wrote.  The
\* abort event goes to the transaction, on which the wrapper sets no handler.
EngineCommitFails ==
    /\ last.promised /\ last.outcome = "resolved"
    /\ last.call.op \in WriteMethods
    /\ data = last.post /\ last.post # last.pre
    /\ data' = last.pre
    /\ UNCHANGED <<version, stores, snap, conn, handed, openReq, delReq, schemaArr,
                   lastGood, pending, last, rt, counting, bal, net>>
NextCommit ==
    \/ Opening(PairSchema)
    \/ Awaits /\ Writes({"items"}, {1, NoKey}, ValueArgs)
    \/ Engine
    \/ EngineCommitFails

SpecCommit == Init /\ [][NextCommit]_vars

\* ------------------------------------------------------------------ claims
Resolved(v) == [state |-> "resolved", value |-> v]
Rejected(v) == [state |-> "rejected", value |-> v]
\* what promisify's promise must be after a first notification how on request
Mirrors(p, how, request) ==
    IF how = "success" THEN p = Resolved(request.result) ELSE p = Rejected(request.error)
OpenDone == openReq.phase = "done"
LastTable == last.call.table
\* the last client call returned a promise that has settled as how
LastSettled(op, how) == last.promised /\ last.call.op = op /\ last.outcome = how
LastStoreKey == StoreKey(stores[LastTable], last.call.value, last.call.key)

\* C1: a promise made by promisify (every client data method, idb.delete)
\* settles once, as the first notification on its request says: resolved with
\* the request's result on success, rejected with its error on failure, and
\* no later notification changes it.
C1_SettlesOnceAsFirstNotification ==
    /\ last.promised => Mirrors(last.promise, last.first, last.firstReq)
    /\ delReq.notes >= 1 => Mirrors(delReq.promise, delReq.first, delReq.firstReq)
C1_Witness ==
    /\ last.promised /\ last.notes >= 2 /\ last.first = "error"
    /\ delReq.notes >= 2 /\ delReq.first = "success"

\* C2 as claimed: a request of insert whose primary key is already in the
\* collection rejects and leaves the records unchanged; update with the same
\* arguments always resolves and leaves the new value under that key.
C2_Original ==
    (last.promised /\ last.call.op \in {"insert", "update"}
       /\ last.pre[LastTable][LastStoreKey] # NoValue) =>
        IF last.call.op = "insert"
        THEN last.outcome = "rejected" /\ last.post = last.pre
        ELSE /\ last.outcome = "resolved"
             /\ last.post[LastTable][LastStoreKey] = last.call.value
\* C2 amended: as C2, except that update rejects too, leaving the records
\* unchanged, when the new value's field in a unique index is that of a record
\* under another key; otherwise it resolves and only that key's record changes,
\* to the new value.
C2_InsertRejectsUpdateOverwrites ==
    (last.promised /\ last.call.op \in {"insert", "update"}
       /\ last.pre[LastTable][LastStoreKey] # NoValue) =>
        IF \/ last.call.op = "insert"
           \/ UniqueClash(stores[LastTable], last.pre[LastTable], last.call.value, LastStoreKey)
        THEN /\ last.promise = Rejected(ErrorValue("ConstraintError"))
             /\ last.post = last.pre
        ELSE /\ last.promise = Resolved(KeyResult(LastStoreKey))
             /\ last.post = [last.pre EXCEPT ![LastTable][LastStoreKey] = last.call.value]
C2_Witness ==
    /\ LastSettled("update", "rejected")
    /\ last.pre[LastTable][LastStoreKey] # NoValue
    /\ last.pre[LastTable][LastStoreKey] # last.call.value

\* C3: when the onUpgrade callback throws x, the promise of open is rejected
\* with x and stays so, whatever the engine delivers on the request afterwards.
C3_ThrowRejectsOpenWithIt ==
    openReq.threw => openReq.promise = Rejected(openReq.thrown)
C3_Witness ==
    /\ OpenDone /\ openReq.threw /\ openReq.thrown = UserError
    /\ conn[openReq.conn] = "open"

\* C4 as claimed: a throw of the onUpgrade callback aborts the upgrade: when the
\* open request has finished, the stored version and the stores are those from
\* before the open call.
C4_ThrowAbortsUpgrade ==
    (OpenDone /\ openReq.threw) =>
        (openReq.endVersion = openReq.preVersion /\ openReq.endStores = openReq.preStores)

\* C5 as claimed: whenever an open promise resolves, the stores its client
\* reaches are those left by the last upgrade whose open call resolved.
C5_ClientSeesLastGoodUpgrade ==
    (OpenDone /\ openReq.promise.state = "resolved") => openReq.endStores = lastGood

\* C6 as claimed: when the engine reports the open request failed, the promise
\* of open is rejected with the request's error itself, as promisify rejects.
C6_OpenRejectsWithTheError ==
    (OpenDone /\ openReq.engineError # "" /\ ~openReq.threw) =>
        (openReq.promise.state = "rejected" /\ openReq.promise.value.kind = "error")

\* C7 as claimed: count(table) with no query resolves with the number of
\* resolved inserts minus the number of resolved deletes and clears.
C7_Original ==
    (counting /\ LastSettled("count", "resolved") /\ last.call.key = NoKey) =>
        last.promise.value = CountResult(bal[LastTable])
\* C7 amended: count(table) with no query resolves with the number of records
\* created (by resolved inserts, and by resolved updates of a key not present)
\* minus the number removed (by resolved deletes of a key present, and by
\* resolved clears, each record a clear removed counting).
C7_CountIsCreatedMinusRemoved ==
    (counting /\ LastSettled("count", "resolved") /\ last.call.key = NoKey) =>
        last.promise.value = CountResult(net[LastTable])
C7_Witness ==
    /\ counting /\ LastSettled("count", "resolved") /\ last.call.key = NoKey
    /\ net[LastTable] = 2 /\ bal[LastTable] < 0

\* C8 as claimed: after close(), every later call of any client method, close
\* too, fails with an engine error and changes no record.
C8_Original ==
    last.closedBefore =>
        (last.outcome \in {"thrown", "rejected"} /\ last.post = last.pre)
\* C8 amended: after close(), every later call of a data method throws the
\* engine's InvalidStateError and changes no record; a later close() returns
\* normally, changes nothing and leaves the connection closed.
C8_ClosedClientThrows ==
    last.closedBefore =>
        /\ last.post = last.pre
        /\ IF last.call.op = "close"
           THEN last.outcome = "returned"
           ELSE last.outcome = "thrown" /\ last.thrown = ErrorValue("InvalidStateError")
        /\ conn[last.call.conn] = "closed"
C8_Witness ==
    /\ last.closedBefore /\ last.call.op = "clear"
    /\ KeysOf(data[LastTable]) # {}

\* C9 as claimed: every failure of a client data method is a rejection of the
\* promise it returned, and no call throws.
C9_FailuresRejectNeverThrow ==
    (last.call.op # "close" /\ last.outcome \in {"thrown", "rejected"}) =>
        (last.promised /\ last.outcome = "rejected")

\* C10: the round trip on a store whose key is in the record (rt is the last
\* resolved insert of a value v under key k that no later resolved write
\* touched).
Tracked(op) == last.promised /\ last.call.op = op /\ LastTable = rt.table
\* insert resolves with the key read from the value
InsertGivesKey ==
    (LastSettled("insert", "resolved") /\ stores[LastTable].keyPath) =>
        last.promise.value = KeyResult(last.call.value.id)
\* select(table, k) resolves with v
SelectGivesValue ==
    (Tracked("select") /\ last.call.key = rt.key) =>
        last.promise = Resolved(ValueResult(rt.value))
\* a resolved delete of a key present lowers count by one and select of the key
\* then gives undefined
DeleteRemovesOne ==
    (LastSettled("delete", "resolved") /\ last.pre[LastTable][last.call.key] # NoValue) =>
        /\ StoreCount(last.post[LastTable], NoKey).num
             = StoreCount(last.pre[LastTable], NoKey).num - 1
        /\ StoreGet(last.post[LastTable], last.call.key) = Undefined
\* the records under a key lower than k whose name is v's
LowerSameName ==
    {k \in KeysOf(last.pre[LastTable]) :
        k < rt.key /\ last.pre[LastTable][k].name = rt.value.name}
\* C10 as claimed: selectIndex with v's field value resolves with v.
C10_Original ==
    /\ InsertGivesKey /\ SelectGivesValue /\ DeleteRemovesOne
    /\ (Tracked("selectIndex") /\ last.call.name = rt.value.name) =>
          last.promise = Resolved(ValueResult(rt.value))
\* C10 amended: selectIndex with v's field value resolves with the record of
\* the lowest key among those holding that value: v itself when the index is
\* unique or no record under a lower key holds it.
C10_RoundTrip ==
    /\ InsertGivesKey /\ SelectGivesValue /\ DeleteRemovesOne
    /\ (Tracked("selectIndex") /\ last.call.name = rt.value.name) =>
          /\ last.promise =
               IF LowerSameName = {} THEN Resolved(ValueResult(rt.value))
               ELSE Resolved(ValueResult(last.pre[LastTable][MinKey(LowerSameName)]))
          /\ stores[LastTable].index = "unique" => LowerSameName = {}
C10_Witness ==
    /\ Tracked("selectIndex") /\ last.call.name = rt.value.name
    /\ LowerSameName # {}

\* the keys of the records of r whose indexed field is n
Holding(r, n) == {k \in KeysOf(r) : r[k].name = n}
\* C11: on a collection with a unique index, selectIndex resolves with the one
\* record whose indexed field is the key, or with undefined when there is none;
\* an insert whose indexed field is that of a record already stored rejects and
\* leaves the records unchanged.
C11_UniqueIndexOneRecord ==
    /\ (last.promised /\ last.call.op = "selectIndex" /\ stores[LastTable].index = "unique") =>
          LET hits == Holding(last.pre[LastTable], last.call.name)
          IN  /\ Cardinality(hits) <= 1
              /\ last.post = last.pre
              /\ last.promise =
                   IF hits = {} THEN Resolved(Undefined)
                   ELSE Resolved(ValueResult(last.pre[LastTable][CHOOSE k \in hits : TRUE]))
    /\ (last.promised /\ last.call.op = "insert" /\ stores[LastTable].index = "unique"
          /\ Holding(last.pre[LastTable], last.call.value.name) # {}) =>
          /\ last.promise = Rejected(ErrorValue("ConstraintError"))
          /\ last.post = last.pre
C11_Witness ==
    /\ LastSettled("insert", "rejected") /\ stores[LastTable].index = "unique"
    /\ last.pre[LastTable][LastStoreKey] = NoValue
    /\ Cardinality(KeysOf(last.pre[LastTable])) = 1

\* the index the caller wrote in the entry of schema sid: on the field "name",
\* unique when the entry says so
WrittenKind(sid) == IF sid = "uniq" THEN "unique" ELSE "multi"
\* C12 as claimed: every upgrade.create(table, options, schema) that creates
\* the collection, also one given a schema object passed to an earlier create,
\* gives it the index the caller wrote in the schema's entry.
C12_CreateMakesWrittenIndex ==
    [][\A t \in Tables, sid \in SchemaIds :
          (InCallback /\ ~stores[t].exists /\ stores'[t].exists
             /\ schemaArr'[sid] # schemaArr[sid]) =>
              stores'[t].index = WrittenKind(sid)]_vars

\* the last call was insert or update, on an open connection, into an existing
\* collection whose key is in the record (inline) or not
LastWrote(inline) ==
    /\ last.call.op \in {"insert", "update"} /\ ~last.closedBefore
    /\ stores[LastTable].exists /\ stores[LastTable].keyPath = inline
\* a call without key argument that resolves has stored the value under the
\* key read from the value
KeyFromValue ==
    (LastWrote(TRUE) /\ last.call.key = NoKey) =>
        /\ last.promised
        /\ last.outcome = "resolved" =>
              /\ last.promise = Resolved(KeyResult(last.call.value.id))
              /\ last.post[LastTable][last.call.value.id] = last.call.value
\* C13 as claimed: with an explicit key the call resolves and the value is
\* stored under the explicit key.
C13_Original ==
    /\ KeyFromValue
    /\ (LastWrote(TRUE) /\ last.call.key \in Keys) =>
          /\ last.outcome = "resolved"
          /\ last.post[LastTable][last.call.key] = last.call.value
\* C13 amended: with an explicit key on a collection whose key is in the
\* record the call throws DataError and stores nothing; the explicit key is the
\* key only on a collection whose key is not in the record.
C13_ExplicitKeyRefused ==
    /\ KeyFromValue
    /\ (LastWrote(TRUE) /\ last.call.key # NoKey) =>
          /\ last.outcome = "thrown" /\ last.thrown = ErrorValue("DataError")
          /\ last.post = last.pre
    /\ (LastWrote(FALSE) /\ last.call.key \in Keys /\ last.outcome = "resolved") =>
          /\ last.promise = Resolved(KeyResult(last.call.key))
          /\ last.post[LastTable][last.call.key] = last.call.value
C13_Witness ==
    /\ LastWrote(TRUE) /\ last.call.op = "update" /\ last.call.key \in Keys
    /\ last.call.key # last.call.value.id
    /\ last.outcome = "thrown"

\* the last call was given a name (of a database, a collection, or the index
\* of selectIndex) that is empty or no string
BadNameGiven ==
    /\ last.call.op \notin {"none", "close"}
    /\ \/ ~assertName(last.call.table)
       \/ last.call.op = "selectIndex" /\ ~assertName(last.call.idx)
\* C14 as claimed: in the validating variant a call given an empty or
\* non-string name throws the TypeError of assertName, before any engine call.
C14_EveryNameChecked ==
    BadNameGiven => (last.outcome = "thrown" /\ last.thrown = NameError)

\* C15: idb.open requests the version argument, or 1 without one; onUpgrade is
\* invoked only when the requested version is above the stored one (0: no
\* database), at most once per open call and while the promise is pending; an
\* open that needed an upgrade resolves only after it, one that needed none
\* finishes without it.
C15_UpgradeOnlyWhenNeeded ==
    /\ openReq.phase # "idle" => openReq.version \in 1..MaxVersion
    /\ openReq.upgrades <= 1
    /\ openReq.upgrades = 1 => openReq.version > openReq.preVersion
    /\ InCallback => (openReq.upgrades = 1 /\ openReq.promise.state = "pending")
    /\ (openReq.promise.state = "resolved" /\ openReq.version > openReq.preVersion) =>
          openReq.upgrades = 1
    /\ (OpenDone /\ openReq.version <= openReq.preVersion) => openReq.upgrades = 0
C15_Witness ==
    /\ OpenDone /\ openReq.upgrades = 1 /\ openReq.promise.state = "resolved"
    /\ openReq.preVersion = 1 /\ openReq.version = 2

\* C16 as claimed: the collections and indexes change only while fn runs in an
\* upgrade (or when the engine rolls an upgrade back); a call on the Upgrade
\* Facade made after the open promise has settled throws and changes nothing;
\* no client method changes them.
C16_StoresChangeOnlyInUpgrade ==
    [][/\ stores' # stores =>
            \/ openReq.phase = "callback"
            \/ openReq.phase = "committing" /\ openReq'.engineError = "AbortError"
       /\ (last' # last /\ last'.call.op \in {"upgrade.create", "upgrade.delete"}) =>
            (last'.outcome = "thrown" /\ stores' = stores)]_vars

ReadMethods == {"select", "selectAll", "selectAllKeys", "selectIndex", "count"}
\* C17: a data method's transaction is over the one named collection, readonly
\* for the methods that read and readwrite for those that write: a call leaves
\* the records of every other collection unchanged, and a method that reads
\* those of its own collection too.
C17_OneCollectionPerCall ==
    /\ last.promised =>
          /\ (TxMode(last.call.op) = "readonly") = (last.call.op \in ReadMethods)
          /\ \A t \in Tables \ {LastTable} : last.post[t] = last.pre[t]
          /\ last.call.op \in ReadMethods => last.post = last.pre
    /\ last.outcome = "thrown" => last.post = last.pre
C17_Witness ==
    /\ LastSettled("clear", "resolved") /\ LastTable = "items"
    /\ KeysOf(last.pre["items"]) # {} /\ KeysOf(last.post["logs"]) # {}

\* the last two requests executed were writes to one collection, the second
\* made before the first was executed
ConcurrentWrites ==
    /\ last.promised /\ last.call.op \in WriteMethods
    /\ last.before.call.op \in WriteMethods
    /\ last.before.call.table = LastTable
\* a write executed alone on records r of store s: its outcome and the records
Alone(s, r, call) ==
    LET k == StoreKey(s, call.value, call.key)
        fails == CASE call.op = "insert" -> r[k] # NoValue \/ UniqueClash(s, r, call.value, k)
                   [] call.op = "update" -> UniqueClash(s, r, call.value, k)
                   [] OTHER -> FALSE
    IN  IF fails THEN <<"rejected", r>>
        ELSE CASE call.op \in {"insert", "update"} -> <<"resolved", [r EXCEPT ![k] = call.value]>>
               [] call.op = "delete" -> <<"resolved", [r EXCEPT ![call.key] = NoValue]>>
               [] OTHER -> <<"resolved", EmptyRecords>>
\* the outcomes of a then b executed one after the other, and the records left
InOrder(s, r, a, b) ==
    LET x == Alone(s, r, a)
        y == Alone(s, x[2], b)
    IN  <<x[1], y[1], y[2]>>
FirstCall == last.before.call
Before == last.before.pre[LastTable]
Observed == <<last.before.outcome, last.outcome, last.post[LastTable]>>
Swapped(o) == <<o[2], o[1], o[3]>>
SameKeyInserts ==
    /\ ConcurrentWrites /\ last.call.op = "insert" /\ FirstCall.op = "insert"
    /\ LastStoreKey = StoreKey(stores[LastTable], FirstCall.value, FirstCall.key)
\* C18 as claimed: two writes to one collection made without awaiting end as
\* one of their two serial orders; of two such inserts with one primary key
\* exactly one resolves and its value is the record stored.
C18_Original ==
    /\ ConcurrentWrites =>
          \/ Observed = InOrder(stores[LastTable], Before, FirstCall, last.call)
          \/ Observed = Swapped(InOrder(stores[LastTable], Before, last.call, FirstCall))
    /\ SameKeyInserts =>
          \/ /\ last.before.outcome = "resolved" /\ last.outcome = "rejected"
             /\ last.post[LastTable][LastStoreKey] = FirstCall.value
          \/ /\ last.before.outcome = "rejected" /\ last.outcome = "resolved"
             /\ last.post[LastTable][LastStoreKey] = last.call.value
\* C18 amended: they end as the serial order in which they were made (neither
\* request is executed before an earlier one on its collection); of two such
\* inserts with one primary key at most one resolves, and then its value is
\* the record stored; both reject, the records unchanged, when the key is
\* already present.
C18_SerialInCallOrder ==
    /\ ConcurrentWrites =>
          /\ ~last.jumped /\ ~last.before.jumped
          /\ Observed = InOrder(stores[LastTable], Before, FirstCall, last.call)
    /\ SameKeyInserts =>
          /\ ~(last.before.outcome = "resolved" /\ last.outcome = "resolved")
          /\ last.before.outcome = "resolved" =>
                last.post[LastTable][LastStoreKey] = FirstCall.value
          /\ last.outcome = "resolved" =>
                last.post[LastTable][LastStoreKey] = last.call.value
          /\ Before[LastStoreKey] # NoValue =>
                /\ last.before.outcome = "rejected" /\ last.outcome = "rejected"
                /\ last.post[LastTable] = Before
C18_Witness ==
    /\ SameKeyInserts /\ FirstCall.value # last.call.value
    /\ last.before.outcome = "resolved" /\ last.outcome = "rejected"

\* C19: if every Connection Facade the callers received is eventually closed,
\* every idb.open and idb.delete call eventually settles: a pending delete
\* request and a pending open request each come to their end, also after an
\* open was rejected because its onUpgrade callback threw, and also when a
\* version change has to wait for an older connection.
C19_OpenAndDeleteSettle ==
    /\ (delReq.phase = "pending") ~> (delReq.phase = "done")
    /\ (openReq.phase = "requesting") ~> (openReq.phase = "done")

\* C20: once the promise of an insert, update, delete or clear has resolved,
\* the effect of the write is part of the collection's state for whatever is
\* issued next: while that call is the last one finished the collection holds
\* the records the write left.
C20_ResolvedWriteStays ==
    (last.promised /\ last.outcome = "resolved" /\ last.call.op \in WriteMethods) =>
        data[LastTable] = last.post[LastTable]

====
